---- MODULE Spec2Model ----
(***************************************************************************)
(* A model of upyt/connection.py: SubprocessConnection (a Connection over  *)
(* the stdin/stdout pipes of a child process) and Connection's scoped      *)
(* timeout override.                                                       *)
(*                                                                         *)
(* Time is a discrete clock.  The statements of a call take no time: the   *)
(* clock advances only while the caller is blocked in a readiness wait or  *)
(* is between calls.  The child process runs concurrently: it may write to *)
(* its stdout, read its stdin or exit between any two steps of the caller. *)
(*                                                                         *)
(* The pipes are the ones Popen creates (connection.py:143-146).  With a   *)
(* bufsize of 0 they are raw files; with any other bufsize (the default is *)
(* -1) stdout is an io.BufferedReader and stdin an io.BufferedWriter, each *)
(* with its own buffer in front of the operating system's pipe.  The       *)
(* selector waits on the file descriptor, that is on the pipe itself.      *)
(*                                                                         *)
(* Spec is the whole program.  SpecRead (the three read calls), SpecWrite  *)
(* (write), SpecTimeout (the timeout and its scoped override), SpecClose   *)
(* (close and the context manager) and SpecEndless (read_buffered against  *)
(* a child that never stops writing) are its parts, each small enough to   *)
(* be checked exhaustively.                                                *)
(***************************************************************************)
EXTENDS Integers, Sequences, FiniteSets, TLC

\* ---------------------------------------------------------------- bounds
MaxStream == 3      \* bytes the child writes to its stdout in one run
MaxClock == 2       \* last instant of the clock
MaxTimeout == 2     \* largest timeout value
MaxN == 2           \* largest num_bytes
MaxEnding == 2      \* longest delimiter
MaxDepth == 2       \* deepest nesting of timeout_override blocks
MaxData == 3        \* longest data given to write
BufferSize == 2     \* size of the buffer of a buffered pipe file
PipeCap == 3        \* capacity of the operating system's pipe
PipeBuf == 1        \* longest write the pipe accepts atomically

Bytes == {"a", "b"}
SeqsUpTo(S, k) == UNION {[1..m -> S] : m \in 0..k}
TimeoutVals == -1..MaxTimeout
NumBytesVals == -1..MaxN
Endings == SeqsUpTo(Bytes, MaxEnding)
DataLens == 0..MaxData

Max(a, b) == IF a >= b THEN a ELSE b
Min(a, b) == IF a <= b THEN a ELSE b
Take(s, k) == SubSeq(s, 1, Min(k, Len(s)))
Drop(s, k) == SubSeq(s, Min(k, Len(s)) + 1, Len(s))

VARIABLES
    buffered,     \* Popen was given a bufsize other than 0
    timeout,      \* self._timeout
    clock,        \* time.monotonic()
    alive,        \* the child process is running
    stream,       \* every byte the child has written to its stdout so far
    pipe,         \* bytes in the stdout pipe, not yet read from the descriptor
    rbuf,         \* bytes held by the BufferedReader of stdout
    returned,     \* the results of all finished read calls, concatenated
    pc,           \* where the caller is
    op,           \* the call in progress
    num_bytes,    \* read's argument
    ending,       \* read_until's argument
    out,          \* the bytes accumulated by the call, and then its result
    end_time,     \* the deadline of the call
    now,          \* the last reading of the clock taken by the loop
    selStart,     \* when the wait in progress was issued
    selArg,       \* the maximum wait it was issued with
    call,         \* what held when the call began
    ret,          \* what held when the call returned
    old_timeout,  \* old_timeout of every active timeout_override, innermost first
    exc,          \* an error is propagating out of a timeout_override block
    tov,          \* the last exit of a timeout_override block
    before,       \* the timeout read just before each active block began
    data,         \* write's argument (its length: the content plays no part)
    written,      \* write's local variable
    rest,         \* what stdin.write has still to take of data
    wbuf,         \* number of bytes held by the BufferedWriter of stdin
    inpipe,       \* number of bytes in the stdin pipe, not yet read by the child
    sys,          \* the os.write in progress: its size and what it has moved
    wcall,        \* what held when write began, and what it has delivered
    wret,         \* what write returned
    signalled,    \* SIGKILL has been sent to the child
    reaped,       \* the child's exit status has been collected (returncode)
    cidx,         \* the statement of close about to run
    clog,         \* the statements the close in progress has run
    cm            \* the with statement over the connection

readVars == <<stream, pipe, rbuf, returned, op, num_bytes, ending, out,
              end_time, now, selStart, selArg, call, ret>>
toVars == <<old_timeout, exc, tov, before>>
writeVars == <<data, written, rest, wbuf, inpipe, sys, wcall, wret>>
closeVars == <<signalled, reaped, cidx, clog, cm>>
vars == <<buffered, timeout, clock, alive, pc, readVars, toVars, writeVars,
          closeVars>>

\* ------------------------------------------------------- pure functions

\* bytes.endswith (connection.py:172)
EndsWith(s, e) ==
    /\ Len(e) <= Len(s)
    /\ SubSeq(s, Len(s) - Len(e) + 1, Len(s)) = e

\* e occurs in s
Occurs(s, e) ==
    \E i \in 0..(Len(s) - Len(e)) : SubSeq(s, i + 1, i + Len(e)) = e

\* A slip: <= for <.
ReadContinue_OrEqual(o, n) == Len(o) <= n

\* The first conjunct of read's loop condition (connection.py:156).
ReadContinue(o, n) == Len(o) < n

\* A slip: the delimiter is looked for in everything read so far, earlier
\* calls included.
UntilContinue_Stream(o, e) == ~EndsWith(returned \o o, e)

\* The first conjunct of read_until's loop condition (connection.py:172).
UntilContinue(o, e) == ~EndsWith(o, e)

\* A slip: the loop gives up one instant before the deadline.
BeforeDeadline_Early(nw, end) == nw + 1 < end

\* A slip: <= for <, one more turn of the loop at the deadline.
BeforeDeadline_OrAt(nw, end) == nw <= end

\* The second conjunct of both loops (connection.py:157, 173).
BeforeDeadline(nw, end) == nw < end

\* A slip: every wait is given the whole timeout.
SelectArg_WholeTimeout(end, nw, t) == t

\* The maximum wait given to select in read and read_until
\* (connection.py:158, 174).
SelectArg(end, nw, t) == end - nw

\* A slip: read_buffered waits for the timeout.
BufferedSelectArg_Timeout(t) == t

\* The maximum wait given to select in read_buffered (connection.py:186).
BufferedSelectArg(t) == 0

\* The deadline of a call (connection.py:150, 166).
EndTime(clk, t) == clk + t

\* The stdout descriptor is readable: data in the pipe, or end of file.
Readable == pipe # <<>> \/ ~alive

\* A slip: the raw file is read two bytes at a time and the second is dropped.
StdoutRead1_Overread(buf, rb, pp) ==
    IF ~buf
    THEN [data |-> Take(pp, 1), rbuf |-> rb, pipe |-> Drop(pp, 2)]
    ELSE IF rb # <<>>
    THEN [data |-> Take(rb, 1), rbuf |-> Drop(rb, 1), pipe |-> pp]
    ELSE [data |-> Take(pp, 1),
          rbuf |-> Drop(Take(pp, BufferSize), 1),
          pipe |-> Drop(pp, BufferSize)]

\* self._process.stdout.read(1) once select reported the descriptor readable
\* (connection.py:159, 175, 186).  A raw file reads one byte from the pipe.
\* A BufferedReader serves the byte from its buffer; when the buffer is
\* empty it first fills it with one read of the descriptor, which takes
\* whatever the pipe holds up to the buffer's size.  At end of file both
\* return the empty string.
StdoutRead1(buf, rb, pp) ==
    IF ~buf
    THEN [data |-> Take(pp, 1), rbuf |-> rb, pipe |-> Drop(pp, 1)]
    ELSE IF rb # <<>>
    THEN [data |-> Take(rb, 1), rbuf |-> Drop(rb, 1), pipe |-> pp]
    ELSE [data |-> Take(pp, 1),
          rbuf |-> Drop(Take(pp, BufferSize), 1),
          pipe |-> Drop(pp, BufferSize)]

\* ----------------------------------------------------------------- Init

Init ==
    /\ buffered \in BOOLEAN
    /\ timeout \in TimeoutVals
    /\ clock = 0
    /\ alive = TRUE
    /\ stream = <<>>
    /\ pipe = <<>>
    /\ rbuf = <<>>
    /\ returned = <<>>
    /\ pc = "idle"
    /\ op = "none"
    /\ num_bytes = 0
    /\ ending = <<>>
    /\ out = <<>>
    /\ end_time = 0
    /\ now = 0
    /\ selStart = 0
    /\ selArg = 0
    /\ call = [clock |-> 0, timeout |-> 0, avail |-> 0]
    /\ ret = [clock |-> 0, arrived |-> 0, closed |-> FALSE]
    /\ old_timeout = <<>>
    /\ exc = FALSE
    /\ tov = [exited |-> FALSE, error |-> FALSE, was |-> 0, timeout |-> 0,
              before |-> 0]
    /\ before = <<>>
    /\ data = 0
    /\ written = 0
    /\ rest = 0
    /\ wbuf = 0
    /\ inpipe = 0
    /\ sys = [size |-> 0, moved |-> 0]
    /\ wcall = [exited |-> FALSE, accepted |-> 0]
    /\ wret = [value |-> 0, raised |-> FALSE]
    /\ signalled = FALSE
    /\ reaped = FALSE
    /\ cidx = 0
    /\ clog = <<>>
    /\ cm = [in |-> FALSE, as |-> "none", exiting |-> FALSE, err |-> FALSE,
             closes |-> 0, left |-> FALSE, raised |-> FALSE]

\* ------------------------------------------------------ the read calls

CanCall == pc = "idle" /\ ~exc

\* What a call records when it begins: the instant, the timeout, and how many
\* bytes the child had written that no earlier call had returned.
Begin ==
    call' = [clock |-> clock, timeout |-> timeout,
             avail |-> Len(stream) - Len(returned)]

\* The call returns out at instant clk.
Return(clk) ==
    /\ pc' = "ret"
    /\ returned' = returned \o out
    /\ ret' = [clock |-> clk,
               arrived |-> Len(stream) - Len(returned),
               closed |-> ~alive /\ pipe = <<>> /\ rbuf = <<>>]
    /\ now' = 0
    /\ selStart' = 0
    /\ selArg' = 0

\* connection.py:150-154
ReadCall(n) ==
    /\ CanCall
    /\ clock + Max(timeout, 0) <= MaxClock
    /\ op' = "read"
    /\ num_bytes' = n
    /\ ending' = <<>>
    /\ end_time' = EndTime(clock, timeout)
    /\ out' = <<>>
    /\ pc' = "loop"
    /\ Begin
    /\ UNCHANGED <<closeVars, buffered,
                   timeout, clock, alive, stream, pipe, rbuf,
                   returned, now, selStart, selArg, ret, toVars, writeVars>>

\* connection.py:166-170
ReadUntilCall(e) ==
    /\ CanCall
    /\ clock + Max(timeout, 0) <= MaxClock
    /\ op' = "read_until"
    /\ num_bytes' = 0
    /\ ending' = e
    /\ end_time' = EndTime(clock, timeout)
    /\ out' = <<>>
    /\ pc' = "loop"
    /\ Begin
    /\ UNCHANGED <<closeVars, buffered,
                   timeout, clock, alive, stream, pipe, rbuf,
                   returned, now, selStart, selArg, ret, toVars, writeVars>>

\* connection.py:182-185
ReadBufferedCall ==
    /\ CanCall
    /\ op' = "read_buffered"
    /\ num_bytes' = 0
    /\ ending' = <<>>
    /\ end_time' = 0
    /\ out' = <<>>
    /\ pc' = "loop"
    /\ Begin
    /\ UNCHANGED <<closeVars, buffered,
                   timeout, clock, alive, stream, pipe, rbuf,
                   returned, now, selStart, selArg, ret, toVars, writeVars>>

\* The loop condition up to the call of select (connection.py:156-158,
\* 172-174, 186): the stop test, the reading of the clock, the deadline test
\* and the issue of the wait.
Continue ==
    IF op = "read" THEN ReadContinue(out, num_bytes)
    ELSE UntilContinue(out, ending)

LoopTest ==
    /\ pc = "loop"
    /\ IF op = "read_buffered"
       THEN /\ pc' = "select"
            /\ selStart' = clock
            /\ selArg' = BufferedSelectArg(timeout)
            /\ UNCHANGED <<now, returned, ret>>
       ELSE IF ~Continue
       THEN Return(clock)
       ELSE IF ~BeforeDeadline(clock, end_time)
       THEN Return(clock)
       ELSE /\ pc' = "select"
            /\ now' = clock
            /\ selStart' = clock
            /\ selArg' = SelectArg(end_time, clock, call.timeout)
            /\ UNCHANGED <<returned, ret>>
    /\ UNCHANGED <<closeVars, buffered,
                   timeout, clock, alive, stream, pipe, rbuf, op,
                   num_bytes, ending, out, end_time, call, toVars, writeVars>>

\* A slip: the result of select is not looked at.
SelectReady_Unchecked ==
    /\ pc = "select"
    /\ pc' = "read1"
    /\ UNCHANGED <<closeVars, buffered, timeout, clock, alive, readVars,
                   toVars, writeVars>>

\* select returns the registered key: the descriptor is readable.
SelectReady ==
    /\ pc = "select"
    /\ Readable
    /\ pc' = "read1"
    /\ UNCHANGED <<closeVars, buffered, timeout, clock, alive, readVars, toVars,
                   writeVars>>

\* select returns nothing at once: nothing is readable and the maximum wait
\* is over (a maximum wait of 0 or less is a poll).
SelectNotReady ==
    /\ pc = "select"
    /\ ~Readable
    /\ clock >= selStart + selArg
    /\ Return(clock)
    /\ UNCHANGED <<closeVars, buffered,
                   timeout, clock, alive, stream, pipe, rbuf, op,
                   num_bytes, ending, out, end_time, call, toVars, writeVars>>

\* Time passes while select blocks with nothing readable; when the maximum
\* wait is over select returns nothing.
TickWait ==
    /\ pc = "select"
    /\ ~Readable
    /\ clock < selStart + selArg
    /\ clock < MaxClock
    /\ clock' = clock + 1
    /\ IF clock + 1 >= selStart + selArg
       THEN Return(clock + 1)
       ELSE UNCHANGED <<pc, returned, ret, now, selStart, selArg>>
    /\ UNCHANGED <<closeVars, buffered, timeout, alive, stream, pipe, rbuf, op,
                   num_bytes, ending, out, end_time, call, toVars, writeVars>>

\* A slip: an empty read does not end the loop.
Read1_IgnoresEof ==
    /\ pc = "read1"
    /\ LET r == StdoutRead1(buffered, rbuf, pipe) IN
       /\ rbuf' = r.rbuf
       /\ pipe' = r.pipe
       /\ out' = out \o r.data
       /\ pc' = "loop"
       /\ UNCHANGED <<returned, ret, now, selStart, selArg>>
    /\ UNCHANGED <<closeVars, buffered, timeout, clock, alive, stream, op,
                   num_bytes, ending, end_time, call, toVars, writeVars>>

\* The last conjunct of the loop condition and the loop body
\* (connection.py:159-161, 175-177, 186-187).
Read1 ==
    /\ pc = "read1"
    /\ LET r == StdoutRead1(buffered, rbuf, pipe) IN
       /\ rbuf' = r.rbuf
       /\ pipe' = r.pipe
       /\ IF r.data = <<>>
          THEN /\ Return(clock)
               /\ out' = out
          ELSE /\ out' = out \o r.data
               /\ pc' = "loop"
               /\ UNCHANGED <<returned, ret, now, selStart, selArg>>
    /\ UNCHANGED <<closeVars, buffered,
                   timeout, clock, alive, stream, op, num_bytes,
                   ending, end_time, call, toVars, writeVars>>

\* The caller takes the result; the locals of the call are gone.
NoCall == [clock |-> 0, timeout |-> 0, avail |-> 0]
NoRet == [clock |-> 0, arrived |-> 0, closed |-> FALSE]

ReadDone ==
    /\ pc = "ret"
    /\ pc' = "idle"
    /\ op' = "none"
    /\ num_bytes' = 0
    /\ ending' = <<>>
    /\ out' = <<>>
    /\ end_time' = 0
    /\ call' = NoCall
    /\ ret' = NoRet
    /\ UNCHANGED <<closeVars, buffered,
                   timeout, clock, alive, stream, pipe, rbuf,
                   returned, now, selStart, selArg, toVars, writeVars>>

\* Time passes between calls.
TickIdle ==
    /\ pc = "idle"
    /\ clock < MaxClock
    /\ clock' = clock + 1
    /\ UNCHANGED <<closeVars, buffered,
                   timeout, alive, pc, readVars, toVars, writeVars>>

\* --------------------------------------------------- the child process

\* The child writes one byte to its stdout.
ChildWrite(b) ==
    /\ alive
    /\ Len(stream) < MaxStream
    /\ stream' = Append(stream, b)
    /\ pipe' = Append(pipe, b)
    /\ UNCHANGED <<closeVars, buffered,
                   timeout, clock, alive, pc, rbuf, returned, op,
                   num_bytes, ending, out, end_time, now, selStart, selArg,
                   call, ret, toVars, writeVars>>

\* The child exits: its end of both pipes is closed.
ChildExit ==
    /\ alive
    /\ alive' = FALSE
    /\ UNCHANGED <<closeVars, buffered,
                   timeout, clock, pc, readVars, toVars, writeVars>>

\* ------------------------------------------------- claims about reading

\* At pc = "ret": the number of stream bytes earlier calls returned, and the
\* bytes of the stream that had arrived for this call when it returned.
Pos == Len(returned) - Len(out)
ArrivedBytes == SubSeq(stream, Pos + 1, Pos + ret.arrived)

\* C1: when at least num_bytes bytes have arrived before the deadline of
\* read(num_bytes), the result is exactly the next num_bytes bytes of the
\* stream.
C1_ReadReturnsExactlyN ==
    (/\ pc = "ret"
     /\ op = "read"
     /\ num_bytes >= 0
     /\ call.timeout > 0
     /\ ret.arrived >= num_bytes)
    => out = SubSeq(stream, Pos + 1, Pos + num_bytes)

\* C2: when the delimiter occurs in the bytes that arrived before the
\* deadline of read_until, the result ends in the delimiter.
C2_ReadUntilFindsDelimiter ==
    (/\ pc = "ret"
     /\ op = "read_until"
     /\ call.timeout > 0
     /\ Occurs(ArrivedBytes, ending))
    => EndsWith(out, ending)

\* C3 (as stated): in read, len(out) <= num_bytes at every iteration and at
\* return, for every num_bytes.
C3_NeverMoreThanN ==
    (op = "read" /\ pc \in {"loop", "select", "read1", "ret"})
    => Len(out) <= num_bytes

\* C3 (amended): in read, len(out) <= num_bytes at every iteration and at
\* return when num_bytes >= 0, and out is empty when num_bytes < 0.
C3_NeverMoreThanN_Amended ==
    (op = "read" /\ pc \in {"loop", "select", "read1", "ret"})
    => Len(out) <= Max(num_bytes, 0)

\* read returned num_bytes bytes and left more in the pipe.
C3_Witness ==
    /\ pc = "ret"
    /\ op = "read"
    /\ num_bytes >= 1
    /\ Len(out) = num_bytes
    /\ pipe # <<>>

\* C4: read(num_bytes) returns fewer than num_bytes bytes when fewer have
\* arrived by its deadline; it returns no later than the timeout after it
\* began; every wait it issues starts before the deadline and ends by it.
C4_ReadWithinTimeout ==
    /\ (pc = "ret" /\ op = "read" /\ ret.arrived < num_bytes)
       => Len(out) < num_bytes
    /\ (pc = "ret" /\ op = "read")
       => ret.clock <= call.clock + Max(call.timeout, 0)
    /\ (pc = "select" /\ op = "read")
       => /\ end_time = call.clock + call.timeout
          /\ selStart < end_time
          /\ selStart + selArg <= end_time

\* read returned a partial, non-empty result at its deadline.
C4_Witness ==
    /\ pc = "ret"
    /\ op = "read"
    /\ call.timeout > 0
    /\ out # <<>>
    /\ Len(out) < num_bytes
    /\ ret.arrived < num_bytes
    /\ ret.clock = call.clock + call.timeout

\* C5 (as stated): a result of read_until that does not end in the delimiter
\* was returned at the deadline, not earlier.
C5_NoDelimiterOnlyAtDeadline ==
    (pc = "ret" /\ op = "read_until" /\ ~EndsWith(out, ending))
    => ret.clock >= end_time

\* C5 (amended): a result of read_until that does not end in the delimiter
\* was returned at the deadline, or when the child's output was closed and
\* had been read to its end.
C5_NoDelimiterAtDeadlineOrEof ==
    (pc = "ret" /\ op = "read_until" /\ ~EndsWith(out, ending))
    => (ret.clock >= end_time \/ ret.closed)

\* read_until returned a partial result at its deadline, the child running.
C5_Witness ==
    /\ pc = "ret"
    /\ op = "read_until"
    /\ call.timeout > 0
    /\ out # <<>>
    /\ ~EndsWith(out, ending)
    /\ ~ret.closed
    /\ ret.clock = end_time

\* C7: read_buffered returns all the bytes the child had written when it was
\* called and that no earlier call returned (and they are the next bytes of
\* the stream).
C7_ReadBufferedReturnsAvailable ==
    (pc = "ret" /\ op = "read_buffered")
    => /\ Len(out) >= call.avail
       /\ out = SubSeq(stream, Pos + 1, Pos + Len(out))

\* A read call is in progress.
InCall == pc \in {"loop", "select", "read1"}

\* The call in progress, or the one that has just returned, is a read or a
\* read_until.
DeadlineCall == op \in {"read", "read_until"}

\* C13: no read loses, duplicates or reorders a byte: the results of the
\* calls, in call order, are a prefix of what the child wrote, and what
\* follows them in the stream is exactly what is still held for later calls
\* (in the pipe, or with a buffered stdout in its buffer); a raw stdout
\* holds nothing outside the pipe.  So the call that follows a read_until
\* which matched its delimiter starts at the byte after the delimiter.
C13_ResultsArePrefixOfStream ==
    /\ stream = returned \o (IF InCall THEN out ELSE <<>>) \o rbuf \o pipe
    /\ ~buffered => rbuf = <<>>

\* read_until matched its delimiter while later bytes were already queued.
C13_Witness ==
    /\ pc = "ret"
    /\ op = "read_until"
    /\ ending # <<>>
    /\ EndsWith(out, ending)
    /\ pipe # <<>>
    /\ Len(returned) < Len(stream)

\* C14: the deadline of read and read_until is computed once, when the call
\* begins, as that instant plus the timeout of that instant; every wait is
\* issued with deadline - now, which is positive and at most the timeout,
\* and does not outlast it; the call returns no later than the timeout after
\* it began.
C14_DeadlineOnceWaitsBounded ==
    /\ (InCall /\ DeadlineCall) => end_time = call.clock + call.timeout
    /\ (pc = "select" /\ DeadlineCall)
       => /\ now = selStart
          /\ selArg = end_time - now
          /\ selArg > 0
          /\ selArg <= call.timeout
          /\ clock <= selStart + selArg
    /\ (pc = "ret" /\ DeadlineCall)
       => ret.clock - call.clock <= Max(call.timeout, 0)

\* A second wait of one call, issued with what was left of the timeout.
C14_Witness ==
    /\ pc = "select"
    /\ DeadlineCall
    /\ out # <<>>
    /\ now > call.clock
    /\ selArg < call.timeout

\* C15: every read of stdout follows, in the same turn of the loop, a wait
\* that reported the descriptor readable, and adds at most one byte to the
\* result; no read follows a wait that reported nothing; during a call time
\* passes only inside a wait, and only up to the wait's maximum.
C15_ReadOnlyWhenReadable ==
    /\ [](pc = "read1" => Readable)
    /\ [][(pc # "read1" /\ pc' = "read1")
          => (pc = "select" /\ Readable)]_vars
    /\ [][(pc = "read1" /\ pc' # pc) => Len(out') <= Len(out) + 1]_vars
    /\ [][(InCall /\ clock' # clock)
          => (pc = "select" /\ ~Readable /\ clock' <= selStart + selArg)]_vars

\* A read is about to be made after a wait that blocked and then reported
\* the descriptor readable.
C15_Witness ==
    /\ pc = "read1"
    /\ DeadlineCall
    /\ clock > call.clock
    /\ pipe # <<>>

\* C16: when stdout is at end of file the read of one byte yields nothing
\* and the call returns what it has accumulated, at that instant; no time
\* passes in any call once the child has exited, whatever the timeout.
C16_EofReturnsAtOnce ==
    /\ [][(pc = "read1" /\ pc' # pc
           /\ StdoutRead1(buffered, rbuf, pipe).data = <<>>)
          => (pc' = "ret" /\ returned' = returned \o out /\ clock' = clock)]_vars
    /\ [][(InCall /\ ~alive) => clock' = clock]_vars
    /\ [](pc = "ret" /\ ret.closed => returned = stream)

\* read returned a partial result before its deadline, at end of file.
C16_Witness ==
    /\ pc = "ret"
    /\ op = "read"
    /\ ret.closed
    /\ out # <<>>
    /\ Len(out) < num_bytes
    /\ ret.clock < end_time

\* The loop condition of the call is false before the first turn, whatever
\* the child does.
StopsAtStart ==
    \/ op = "read" /\ num_bytes <= 0
    \/ op = "read_until" /\ ending = <<>>
    \/ DeadlineCall /\ call.timeout <= 0

\* C17: a call whose loop condition is false at the start (read of no bytes,
\* read_until of the empty delimiter, timeout of zero or less) issues no wait
\* and no read: it returns the empty result at the instant it began, and
\* every byte that was queued is still queued.
C17_NothingToDoReturnsEmpty ==
    (StopsAtStart /\ (InCall \/ pc = "ret"))
    => /\ pc \in {"loop", "ret"}
       /\ out = <<>>
       /\ clock = call.clock
       /\ pc = "ret" => ret.clock = call.clock
       /\ Len(rbuf) + Len(pipe) >= call.avail
       /\ stream = returned \o rbuf \o pipe

\* read of a positive number of bytes returned empty with a timeout of zero
\* or less while bytes were queued.
C17_Witness ==
    /\ pc = "ret"
    /\ op = "read"
    /\ num_bytes > 0
    /\ call.timeout <= 0
    /\ out = <<>>
    /\ pipe # <<>>

\* The number of stream bytes returned by the calls before the one in
\* progress or just returned.
StartPos == IF pc = "ret" THEN Len(returned) - Len(out) ELSE Len(returned)

\* C18: the result of a call holds only bytes read during that call, and
\* read_until looks for its delimiter in those bytes only: it does not
\* return before its deadline or the end of file unless the bytes of this
\* call end in the delimiter, even when the earlier results and this one
\* together do.
C18_DelimiterWithinThisCall ==
    /\ (InCall \/ pc = "ret")
       => /\ StartPos + Len(out) <= Len(stream)
          /\ out = SubSeq(stream, StartPos + 1, StartPos + Len(out))
    /\ (pc = "ret" /\ op = "read_until" /\ ret.clock < end_time
        /\ ~ret.closed) => EndsWith(out, ending)

\* The earlier results ended in the first byte of the delimiter, this call
\* read the second and went on to its deadline.
C18_Witness ==
    /\ pc = "ret"
    /\ op = "read_until"
    /\ StartPos > 0
    /\ out # <<>>
    /\ Len(out) < Len(ending)
    /\ EndsWith(returned, ending)
    /\ ~EndsWith(out, ending)
    /\ ~ret.closed
    /\ ret.clock = end_time

NextRead ==
    \/ \E n \in NumBytesVals : ReadCall(n)
    \/ \E e \in Endings : ReadUntilCall(e)
    \/ ReadBufferedCall
    \/ LoopTest
    \/ SelectReady
    \/ SelectNotReady
    \/ TickWait
    \/ Read1
    \/ ReadDone
    \/ TickIdle
    \/ \E b \in Bytes : ChildWrite(b)
    \/ ChildExit

SpecRead == Init /\ [][NextRead]_vars

\* ------------------------------------------- read_buffered, without end
\*
\* The loop of read_buffered reads neither out nor the clock.  To let the
\* child write without end in a finite state space, this specification
\* keeps no record of the bytes: the child's writes are not added to stream
\* and the bytes read are not added to out.  The pipe holds at most PipeCap
\* bytes; the child waits while it is full.

ChildWriteOn(b) ==
    /\ alive
    /\ Len(pipe) < PipeCap
    /\ pipe' = Append(pipe, b)
    /\ UNCHANGED <<closeVars, buffered, timeout, clock, alive, pc, stream, rbuf,
                   returned, op, num_bytes, ending, out, end_time, now,
                   selStart, selArg, call, ret, toVars, writeVars>>

\* Read1, the byte read not kept.
Read1Unkept ==
    /\ pc = "read1"
    /\ LET r == StdoutRead1(buffered, rbuf, pipe) IN
       /\ rbuf' = r.rbuf
       /\ pipe' = r.pipe
       /\ IF r.data = <<>>
          THEN Return(clock)
          ELSE /\ pc' = "loop"
               /\ UNCHANGED <<returned, ret, now, selStart, selArg>>
    /\ UNCHANGED <<closeVars, buffered,
                   timeout, clock, alive, stream, op, num_bytes,
                   ending, out, end_time, call, toVars, writeVars>>

NextEndless ==
    \/ ReadBufferedCall
    \/ LoopTest
    \/ SelectReady
    \/ SelectNotReady
    \/ Read1Unkept
    \/ ReadDone
    \/ \E b \in Bytes : ChildWriteOn(b)
    \/ ChildExit

\* The caller's thread runs: a step of the call that can be taken is taken.
CallerStepEndless == LoopTest \/ SelectReady \/ SelectNotReady \/ Read1Unkept

SpecEndless == Init /\ [][NextEndless]_vars /\ WF_vars(CallerStepEndless)

InReadBuffered == op = "read_buffered" /\ pc \in {"loop", "select", "read1"}

SetTimeout(v) ==
    /\ CanCall
    /\ timeout' = v
    /\ UNCHANGED <<closeVars, buffered,
                   clock, alive, pc, readVars, toVars, writeVars>>

\* old_timeout = self.timeout (connection.py:83), read before value is
\* assigned.
OldTimeout(t, v) == t

\* A slip: the timeout is restored after the yield, without try/finally.
Restored_UnlessError(old, cur, err) == IF err THEN cur ELSE old

\* The finally clause (connection.py:87-88): the timeout after the block,
\* given old_timeout, the timeout the block left and whether an error is
\* propagating.
Restored(old, cur, err) == old

\* Entering a block scoped by timeout_override(v) (connection.py:83-86).
OverrideEnter(v) ==
    /\ CanCall
    /\ Len(old_timeout) < MaxDepth
    /\ old_timeout' = <<OldTimeout(timeout, v)>> \o old_timeout
    /\ before' = <<timeout>> \o before
    /\ timeout' = v
    /\ UNCHANGED <<closeVars, buffered,
                   clock, alive, pc, readVars, exc, tov, writeVars>>

\* Leaving the innermost block, at its end or with an error propagating
\* out of it (connection.py:87-88).
OverrideExit ==
    /\ pc = "idle"
    /\ old_timeout # <<>>
    /\ timeout' = Restored(Head(old_timeout), timeout, exc)
    /\ old_timeout' = Tail(old_timeout)
    /\ before' = Tail(before)
    /\ tov' = [exited |-> TRUE, error |-> exc, was |-> timeout,
               timeout |-> timeout', before |-> Head(before)]
    /\ UNCHANGED <<closeVars, buffered,
                   clock, alive, pc, readVars, exc, writeVars>>

\* An error is raised inside a block.
RaiseInBlock ==
    /\ CanCall
    /\ old_timeout # <<>>
    /\ exc' = TRUE
    /\ UNCHANGED <<closeVars, buffered, timeout, clock, alive, pc, readVars,
                   old_timeout, tov, before, writeVars>>

\* The error is handled, inside an enclosing block or outside all of them,
\* once the __exit__ in progress, if any, has returned.
Catch ==
    /\ pc = "idle"
    /\ exc
    /\ exc' = FALSE
    /\ UNCHANGED <<closeVars, buffered, timeout, clock, alive, pc, readVars,
                   old_timeout, tov, before, writeVars>>

\* C6: after a block scoped by timeout_override exits, normally or by an
\* error, the timeout is what it was just before the block began, whatever
\* the block did to it.
C6_OverrideRestores == tov.exited => tov.timeout = tov.before

\* A nested block that changed the timeout was left by an error.
C6_Witness ==
    /\ tov.exited
    /\ tov.error
    /\ tov.was # tov.before
    /\ old_timeout # <<>>

NextTimeout ==
    \/ \E v \in TimeoutVals : SetTimeout(v)
    \/ \E v \in TimeoutVals : OverrideEnter(v)
    \/ OverrideExit
    \/ RaiseInBlock
    \/ Catch

SpecTimeout == Init /\ [][NextTimeout]_vars

\* -------------------------------------------------------------- write
\*
\* stdin is a raw file when Popen was given bufsize 0 and a BufferedWriter
\* otherwise.  Both end in os.write on the pipe, which blocks while the pipe
\* is full.  A write of at most PipeBuf bytes is atomic: it waits until all
\* of it fits.  A longer write moves what fits and waits for more room.
\* When the child has exited, os.write fails with a broken pipe if it has
\* moved nothing, and returns the count it has moved otherwise.

\* A slip: stdin.flush() is outside the try statement.
Catches_WriteOnly(site) == site = "write"

\* The try statement of write: BrokenPipeError raised by stdin.write or by
\* stdin.flush is caught (connection.py:192-196).
Catches(site) == site \in {"write", "flush"}

NoSys == [size |-> 0, moved |-> 0]

\* write returns v, or lets the error out.
WriteReturn(v, raised) ==
    /\ pc' = "w_ret"
    /\ wret' = [value |-> v, raised |-> raised]

\* BrokenPipeError is raised in stdin.write or in stdin.flush.
BrokenPipe(site) ==
    IF Catches(site) THEN WriteReturn(0, FALSE) ELSE WriteReturn(0, TRUE)

\* connection.py:193, to the point where stdin.write needs the pipe.
\* BufferedWriter.write copies data into the buffer when it fits; otherwise
\* it first flushes the buffer.  FileIO.write is one os.write.
WriteCall(n) ==
    /\ CanCall
    /\ data' = n
    /\ wcall' = [exited |-> ~alive, accepted |-> 0]
    /\ IF buffered
       THEN IF n <= BufferSize - wbuf
            THEN /\ wbuf' = wbuf + n
                 /\ written' = n
                 /\ rest' = 0
                 /\ pc' = "w_flush"
            ELSE /\ rest' = n
                 /\ pc' = "w_pre"
                 /\ UNCHANGED <<wbuf, written>>
       ELSE IF n = 0
            THEN /\ written' = 0
                 /\ rest' = 0
                 /\ pc' = "w_flush"
                 /\ UNCHANGED wbuf
            ELSE /\ rest' = n
                 /\ pc' = "w_raw"
                 /\ UNCHANGED <<wbuf, written>>
    /\ UNCHANGED <<closeVars, buffered,
                   timeout, clock, alive, readVars, toVars, inpipe,
                   sys, wret>>

\* The bytes the caller's current step has to hand to os.write.
Pending ==
    IF pc \in {"w_pre", "w_flush"} THEN wbuf
    ELSE IF pc = "w_direct" THEN (IF rest > BufferSize THEN rest ELSE 0)
    ELSE IF pc = "w_raw" THEN rest
    ELSE 0

\* os.write is entered with the pending bytes.
OsStart ==
    /\ pc \in {"w_pre", "w_direct", "w_flush", "w_raw"}
    /\ sys = NoSys
    /\ Pending > 0
    /\ alive
    /\ sys' = [size |-> Pending, moved |-> 0]
    /\ UNCHANGED <<closeVars, buffered,
                   timeout, clock, alive, pc, readVars, toVars,
                   data, written, rest, wbuf, inpipe, wcall, wret>>

\* os.write moves bytes into the pipe: all of an atomic write once it fits,
\* and as much of a longer one as there is room for.
OsMove ==
    /\ sys.size > 0
    /\ sys.moved < sys.size
    /\ alive
    /\ LET m == IF sys.size <= PipeBuf THEN sys.size
                ELSE Min(sys.size - sys.moved, PipeCap - inpipe) IN
       /\ m > 0
       /\ inpipe + m <= PipeCap
       /\ inpipe' = inpipe + m
       /\ sys' = [sys EXCEPT !.moved = @ + m]
       /\ wcall' = [wcall EXCEPT !.accepted = @ + m]
    /\ UNCHANGED <<closeVars, buffered,
                   timeout, clock, alive, pc, readVars, toVars,
                   data, written, rest, wbuf, wret>>

\* os.write returns the count it moved: all of it, or less when the child
\* exited meanwhile.  The buffered flush and the direct write loop go on
\* with what is left; FileIO.write returns the count.
OsReturn ==
    /\ sys.size > 0
    /\ \/ sys.moved = sys.size
       \/ ~alive /\ sys.moved > 0
    /\ sys' = NoSys
    /\ IF pc \in {"w_pre", "w_flush"}
       THEN /\ wbuf' = wbuf - sys.moved
            /\ UNCHANGED <<pc, rest, written>>
       ELSE IF pc = "w_direct"
       THEN /\ rest' = rest - sys.moved
            /\ UNCHANGED <<pc, wbuf, written>>
       ELSE /\ written' = sys.moved
            /\ rest' = 0
            /\ pc' = "w_flush"
            /\ UNCHANGED wbuf
    /\ UNCHANGED <<closeVars, buffered,
                   timeout, clock, alive, readVars, toVars, data,
                   inpipe, wcall, wret>>

\* os.write fails with a broken pipe: BrokenPipeError comes out of
\* stdin.write (connection.py:193) or of stdin.flush (connection.py:194).
OsBrokenPipe ==
    /\ pc \in {"w_pre", "w_direct", "w_flush", "w_raw"}
    /\ Pending > 0
    /\ sys.moved = 0
    /\ ~alive
    /\ sys' = NoSys
    /\ BrokenPipe(IF pc = "w_flush" THEN "flush" ELSE "write")
    /\ UNCHANGED <<closeVars, buffered,
                   timeout, clock, alive, readVars, toVars, data,
                   written, rest, wbuf, inpipe, wcall>>

\* BufferedWriter.write has emptied the buffer and turns to data.
WritePreDone ==
    /\ pc = "w_pre"
    /\ wbuf = 0
    /\ sys = NoSys
    /\ pc' = "w_direct"
    /\ UNCHANGED <<closeVars, buffered, timeout, clock, alive, readVars, toVars,
                   writeVars>>

\* BufferedWriter.write keeps what is left of data, now at most the size of
\* the buffer, in the buffer and returns len(data).
WriteDirectDone ==
    /\ pc = "w_direct"
    /\ sys = NoSys
    /\ rest <= BufferSize
    /\ wbuf' = rest
    /\ rest' = 0
    /\ written' = data
    /\ pc' = "w_flush"
    /\ UNCHANGED <<closeVars, buffered,
                   timeout, clock, alive, readVars, toVars, data,
                   inpipe, sys, wcall, wret>>

\* stdin.flush() has nothing left to flush, and write returns written
\* (connection.py:194, 198).
WriteFlushDone ==
    /\ pc = "w_flush"
    /\ sys = NoSys
    /\ wbuf = 0
    /\ WriteReturn(written, FALSE)
    /\ UNCHANGED <<closeVars, buffered,
                   timeout, clock, alive, readVars, toVars, data,
                   written, rest, wbuf, inpipe, sys, wcall>>

\* The caller takes the result; the locals of the call are gone.
WriteDone ==
    /\ pc = "w_ret"
    /\ pc' = "idle"
    /\ data' = 0
    /\ written' = 0
    /\ rest' = 0
    /\ wcall' = [exited |-> FALSE, accepted |-> 0]
    /\ wret' = [value |-> 0, raised |-> FALSE]
    /\ UNCHANGED <<closeVars, buffered,
                   timeout, clock, alive, readVars, toVars, wbuf,
                   inpipe, sys>>

\* The child reads one byte of its stdin.
ChildRead ==
    /\ alive
    /\ inpipe > 0
    /\ inpipe' = inpipe - 1
    /\ UNCHANGED <<closeVars, buffered,
                   timeout, clock, alive, pc, readVars, toVars,
                   data, written, rest, wbuf, sys, wcall, wret>>

\* C9: a write called after the child has exited returns 0 and lets no
\* error out.
C9_WriteAfterExitReturnsZero ==
    (pc = "w_ret" /\ wcall.exited) => (wret.value = 0 /\ ~wret.raised)

\* write, given some bytes after the child exited, has returned.
C9_Witness ==
    /\ pc = "w_ret"
    /\ wcall.exited
    /\ data > 0
    /\ wbuf > 0

\* C10: the value write returns is the number of bytes of data that went
\* into the child's stdin pipe.
C10_WriteReturnsAccepted ==
    (pc = "w_ret" /\ ~wret.raised) => wret.value = wcall.accepted

NextWrite ==
    \/ \E n \in DataLens : WriteCall(n)
    \/ OsStart
    \/ OsMove
    \/ OsReturn
    \/ OsBrokenPipe
    \/ WritePreDone
    \/ WriteDirectDone
    \/ WriteFlushDone
    \/ WriteDone
    \/ ChildRead
    \/ ChildExit

SpecWrite == Init /\ [][NextWrite]_vars

\* ------------------------------------------- close, the context manager

\* A slip: close returns once the signal is sent.
CloseSteps_NoWait == <<"kill">>

\* The body of close, statement by statement (connection.py:201-202).
CloseSteps == <<"kill", "wait">>

\* close() is called by the program (connection.py:200).
CloseCall ==
    /\ CanCall
    /\ pc' = "close"
    /\ cidx' = 1
    /\ clog' = <<>>
    /\ UNCHANGED <<buffered, timeout, clock, alive, readVars, toVars,
                   writeVars, signalled, reaped, cm>>

\* The next statement of close.  Popen.kill sends SIGKILL to a child that is
\* running; for one that has exited it sends nothing, and depending on the
\* library version it collects the exit status or not.  Popen.wait blocks
\* until the child has exited and collects its exit status.
CloseStep ==
    /\ pc = "close"
    /\ cidx <= Len(CloseSteps)
    /\ \/ /\ CloseSteps[cidx] = "kill"
          /\ IF alive
             THEN signalled' = TRUE /\ UNCHANGED reaped
             ELSE reaped' \in {reaped, TRUE} /\ UNCHANGED signalled
       \/ /\ CloseSteps[cidx] = "wait"
          /\ ~alive
          /\ reaped' = TRUE
          /\ UNCHANGED signalled
    /\ clog' = Append(clog, CloseSteps[cidx])
    /\ cidx' = cidx + 1
    /\ UNCHANGED <<buffered, timeout, clock, alive, pc, readVars, toVars,
                   writeVars, cm>>

\* close returns (connection.py:202).
CloseReturn ==
    /\ pc = "close"
    /\ cidx > Len(CloseSteps)
    /\ pc' = "c_ret"
    /\ UNCHANGED <<buffered, timeout, clock, alive, readVars, toVars,
                   writeVars, closeVars>>

\* The program goes on after a close it called itself.
CloseDone ==
    /\ pc = "c_ret"
    /\ ~cm.exiting
    /\ pc' = "idle"
    /\ cidx' = 0
    /\ clog' = <<>>
    /\ UNCHANGED <<buffered, timeout, clock, alive, readVars, toVars,
                   writeVars, signalled, reaped, cm>>

\* The child dies of the SIGKILL it was sent.
ChildKilled ==
    /\ alive
    /\ signalled
    /\ alive' = FALSE
    /\ UNCHANGED <<buffered, timeout, clock, pc, readVars, toVars, writeVars,
                   closeVars>>

\* What __enter__ returns (connection.py:58).
EnterValue == "self"

\* A slip: __exit__ returns a true value.
ExitSuppresses_Always == TRUE

\* __exit__ returns None (connection.py:60-61): the error that ended the
\* block is not suppressed.
ExitSuppresses == FALSE

\* with connection as c: (connection.py:53-58).
WithEnter ==
    /\ CanCall
    /\ ~cm.in
    /\ ~cm.left
    /\ cm' = [cm EXCEPT !.in = TRUE, !.as = EnterValue]
    /\ UNCHANGED <<buffered, timeout, clock, alive, pc, readVars, toVars,
                   writeVars, signalled, reaped, cidx, clog>>

\* An error is raised inside the with block.
RaiseInWith ==
    /\ CanCall
    /\ cm.in
    /\ exc' = TRUE
    /\ UNCHANGED <<buffered, timeout, clock, alive, pc, readVars,
                   old_timeout, tov, before, writeVars, closeVars>>

\* The block is left, at its end or by an error: __exit__ is called and calls
\* close (connection.py:60-61).
WithExit ==
    /\ pc = "idle"
    /\ cm.in
    /\ cm' = [cm EXCEPT !.in = FALSE, !.exiting = TRUE, !.err = exc,
                        !.closes = @ + 1]
    /\ pc' = "close"
    /\ cidx' = 1
    /\ clog' = <<>>
    /\ UNCHANGED <<buffered, timeout, clock, alive, readVars, toVars,
                   writeVars, signalled, reaped>>

\* __exit__ returns after close has returned (connection.py:61): the error,
\* if there is one, goes on propagating unless __exit__ suppressed it.
WithLeave ==
    /\ pc = "c_ret"
    /\ cm.exiting
    /\ pc' = "idle"
    /\ exc' = (exc /\ ~ExitSuppresses)
    /\ cm' = [cm EXCEPT !.exiting = FALSE, !.left = TRUE,
                        !.raised = (exc /\ ~ExitSuppresses)]
    /\ cidx' = 0
    /\ UNCHANGED <<buffered, timeout, clock, alive, readVars, old_timeout,
                   tov, before, writeVars, signalled, reaped, clog>>

\* C11: close always kills the child and then waits for it, in that order
\* and without skipping either: when close returns the child has terminated
\* and its exit status has been collected, whether the child was running
\* when close was called or had exited before.
C11_CloseKillsThenWaits ==
    pc = "c_ret" => (clog = <<"kill", "wait">> /\ ~alive /\ reaped)

\* close has returned after sending SIGKILL to a child that was running.
C11_Witness ==
    /\ pc = "c_ret"
    /\ signalled
    /\ ~cm.exiting

\* C12: the with block is given the connection itself; leaving the block,
\* at its end or by an error, calls close exactly once, and the error still
\* propagates once close has returned.
C12_WithClosesOnceAndPropagates ==
    /\ (cm.in \/ cm.exiting \/ cm.left) => cm.as = "self"
    /\ cm.in => cm.closes = 0
    /\ (cm.exiting \/ cm.left) => cm.closes = 1
    /\ cm.left => (reaped /\ ~alive)
    /\ cm.left => (cm.raised = cm.err)
    /\ (cm.exiting /\ cm.err) => exc

\* The block was left by an error, close ran, and the error propagated.
C12_Witness ==
    /\ cm.left
    /\ cm.err
    /\ cm.raised
    /\ cm.closes = 1

NextClose ==
    \/ CloseCall
    \/ CloseStep
    \/ CloseReturn
    \/ CloseDone
    \/ ChildKilled
    \/ ChildExit
    \/ WithEnter
    \/ RaiseInWith
    \/ WithExit
    \/ WithLeave
    \/ Catch

SpecClose == Init /\ [][NextClose]_vars

\* ---------------------------------------------------- the whole program

Next == NextRead \/ NextTimeout \/ NextWrite \/ NextClose

Spec == Init /\ [][Next]_vars

====
